---- MODULE Spec2Model ----
(***************************************************************************)
(* The pomodoro timer of src-tauri/src/main.rs: the shared PomodoroState   *)
(* behind one Mutex, the one-second tick loop spawned in main(), and the   *)
(* commands toggle_timer, reset_timer, skip_mode and update_settings.      *)
(* Every handler runs with the lock held from its first line to its last,  *)
(* so each is one atomic action.                                           *)
(***************************************************************************)
EXTENDS Integers, Sequences, FiniteSets, TLC

\* ------------------------------------------------------------------ bounds
\* sessions_completed is a u32; the model stops counting at MaxSessions.
MaxSessions == 2
\* Calendar dates are numbered 0 (before start-up), 1 (start-up day) .. MaxDay.
MaxDay == 2
\* Largest time_left the countdown scenario (CountdownSpec) starts from.
MaxCountdown == 3

\* ------------------------------------------------------- program constants
\* `* 60`: minutes to seconds.
SecondsPerMinute == 60
\* `.max(1)`: a duration counts as at least one minute.
MinMinutes == 1

\* ------------------------------------------------------------------- state
VARIABLES
  time_left,           \* PomodoroState.time_left (seconds)
  is_active,           \* PomodoroState.is_active
  mode,                \* PomodoroState.mode: "work" | "shortBreak" | "longBreak"
  sessions_completed,  \* PomodoroState.sessions_completed
  last_date,           \* PomodoroState.last_date
  settings,            \* PomodoroState.settings
  today,               \* the date Local::now() reports
  state_file,          \* pomodoro_state.json: a PomodoroPersistentState or NoFile
  settings_file,       \* pomodoro_settings.json: a PomodoroSettings
  poisoned,            \* the Mutex is poisoned: a handler panicked holding it
  loop_alive,          \* the spawned tick task has not panicked
  emitted,             \* events handle.emit sent during the last step, in order
  saved,               \* save_persistent_state calls of the last step, in order
  io,                  \* lock, file-write and notification steps of the last step
  origin,              \* countdown scenario: the state it started from
  elapsed              \* countdown scenario: ticks since origin

timer == <<time_left, is_active, mode, sessions_completed, last_date, settings>>
host == <<today, state_file, settings_file, poisoned, loop_alive>>
outputs == <<emitted, saved, io>>
scenario == <<origin, elapsed>>
vars == <<timer, host, outputs, scenario>>

\* ---------------------------------------------------------------- settings
\* The PomodoroSettings values the model loads and submits.  Durations are in
\* minutes: the three phases are either 1, 1 and 2 minutes long or all set to
\* 0, which the code clamps.  long_break_interval 0 is included because the
\* code divides by it.  stop_after_sessions is 0 (no limit) or 1, a limit the
\* count can pass within MaxSessions.  The three flags are read at three different lines
\* (352, 362, 358); the four rows of Flags hold every pair of values of every
\* two of them.
Durations ==
  { [work_duration |-> 1, short_break_duration |-> 1, long_break_duration |-> 2],
    [work_duration |-> 0, short_break_duration |-> 0, long_break_duration |-> 0] }
Intervals == {0, 1, 2}
SessionLimits == {0, 1}
FlagsOf(breaks, pomodoros, long_stop) ==
  [ auto_start_breaks |-> breaks, auto_start_pomodoros |-> pomodoros,
    stop_after_long_break |-> long_stop ]
Flags ==
  { FlagsOf(FALSE, FALSE, FALSE), FlagsOf(TRUE, TRUE, FALSE),
    FlagsOf(FALSE, TRUE, TRUE), FlagsOf(TRUE, FALSE, TRUE) }

SettingsOf(d, interval, limit, f) ==
  [ work_duration          |-> d.work_duration,
    short_break_duration   |-> d.short_break_duration,
    long_break_duration    |-> d.long_break_duration,
    long_break_interval    |-> interval,
    auto_start_breaks      |-> f.auto_start_breaks,
    auto_start_pomodoros   |-> f.auto_start_pomodoros,
    max_sessions           |-> 8,
    stop_after_sessions    |-> limit,
    stop_after_long_break  |-> f.stop_after_long_break ]

SettingsValues ==
  { SettingsOf(d, i, l, f) :
      d \in Durations, i \in Intervals, l \in SessionLimits, f \in Flags }

\* The submissions the model makes from settings st: st again, or st with one
\* group of the settings form changed (the durations, the interval, the
\* session limit, the flags).  Every value of SettingsValues is reached by a
\* few such submissions.
Edits(st) ==
  {st}
  \cup { [st EXCEPT !.work_duration = d.work_duration,
                    !.short_break_duration = d.short_break_duration,
                    !.long_break_duration = d.long_break_duration] : d \in Durations }
  \cup { [st EXCEPT !.long_break_interval = i] : i \in Intervals }
  \cup { [st EXCEPT !.stop_after_sessions = l] : l \in SessionLimits }
  \cup { [st EXCEPT !.auto_start_breaks = f.auto_start_breaks,
                    !.auto_start_pomodoros = f.auto_start_pomodoros,
                    !.stop_after_long_break = f.stop_after_long_break] : f \in Flags }

Modes == {"work", "shortBreak", "longBreak"}

\* PomodoroPersistentState documents a start-up may find, besides no readable
\* document at all.
NoFile == [missing |-> TRUE]
\* A document fs::read_to_string or serde_json::from_str rejects.
Unreadable == [unreadable |-> TRUE]
PersistentState(n, d) == [sessions_completed |-> n, last_date |-> d]
InitialFiles ==
  {NoFile, PersistentState(1, 0)} \cup {PersistentState(n, 1) : n \in 1..MaxSessions}

\* ----------------------------------------------------------------- helpers
Max(a, b) == IF a >= b THEN a ELSE b

\* `<duration>.max(1) * 60`
ClampedSeconds(minutes) == Max(minutes, MinMinutes) * SecondsPerMinute

\* Mutant of ModeSeconds: the match falls through to the work arm for every
\* mode.
ModeSeconds_work_arm(m, st) == Max(st.work_duration, MinMinutes) * SecondsPerMinute

\* match s.mode.as_str() { "shortBreak" => .., "longBreak" => .., _ => .. }
ModeSeconds(m, st) ==
  CASE m = "shortBreak" -> ClampedSeconds(st.short_break_duration)
    [] m = "longBreak"  -> ClampedSeconds(st.long_break_duration)
    [] OTHER            -> ClampedSeconds(st.work_duration)

\* s.clone(): the PomodoroState in the variables.
Snapshot ==
  [ time_left |-> time_left, is_active |-> is_active, mode |-> mode,
    sessions_completed |-> sessions_completed, last_date |-> last_date,
    settings |-> settings ]

Event(name, payload) == [name |-> name, payload |-> payload]

\* Mutant of load_persistent_state: the stored date is not compared.
load_persistent_state_any_date(file, now) ==
  IF file \notin {NoFile, Unreadable}
    THEN file
    ELSE PersistentState(0, now)

\* load_persistent_state: the stored state when its date is today's, else a
\* fresh count for today.
load_persistent_state(file, now) ==
  IF file \notin {NoFile, Unreadable} /\ file.last_date = now
    THEN file
    ELSE PersistentState(0, now)

\* load_settings: the stored settings.  (A missing or unreadable document
\* gives PomodoroSettings::default(), whose 25-minute phases lie outside the
\* durations the model enumerates; every start-up here finds a document.)
load_settings(file) == file

\* The countdown scenario's record of where it started; none runs under Spec.
Origin(left, n) == [time_left |-> left, sessions_completed |-> n]
NoScenario == Origin(0, 0)

\* ==================================================================== Init
\* main(): settings and daily state are loaded, the timer starts paused in
\* work mode with a full work phase.
Init ==
  /\ today = 1
  /\ state_file \in InitialFiles
  /\ settings_file \in SettingsValues
  /\ settings = load_settings(settings_file)
  /\ time_left = ClampedSeconds(settings.work_duration)
  /\ is_active = FALSE
  /\ mode = "work"
  /\ sessions_completed = load_persistent_state(state_file, today).sessions_completed
  /\ last_date = load_persistent_state(state_file, today).last_date
  /\ poisoned = FALSE
  /\ loop_alive = TRUE
  /\ emitted = <<>>
  /\ saved = <<>>
  /\ io = <<>>
  /\ origin = NoScenario
  /\ elapsed = 0

\* ============================================================ the tick loop
\* Mutant of rollover: the date is updated, the count is not reset.
rollover_keeps_count(s, now) ==
  IF s.last_date # now THEN [s EXCEPT !.last_date = now] ELSE s

\* Lines 334-338: a new date resets the day's count.
rollover(s, now) ==
  IF s.last_date # now
    THEN [s EXCEPT !.last_date = now, !.sessions_completed = 0]
    ELSE s

\* Mutant of session_limit_reached: > for >=.
session_limit_passed(n, st) ==
  st.stop_after_sessions > 0 /\ n > st.stop_after_sessions

\* Line 347: the configured number of sessions is done.
session_limit_reached(n, st) ==
  st.stop_after_sessions > 0 /\ n >= st.stop_after_sessions

\* Mutant of is_long_after_work: the rule of skip_mode, one session ahead.
is_long_after_next(n, interval) == (n + 1) % interval = 0

\* Line 349: `s.sessions_completed % s.settings.long_break_interval == 0`,
\* evaluated only for a non-zero interval (see work_completion_panics).
is_long_after_work(n, interval) == n % interval = 0

\* Line 349 with long_break_interval = 0: the remainder panics.
work_completion_panics(n, st) ==
  ~session_limit_reached(n, st) /\ st.long_break_interval = 0

\* The break a completed or skipped work phase leads to.
break_mode(is_long) == IF is_long THEN "longBreak" ELSE "shortBreak"

\* Mutant of work_complete: the break starts with the time_left the work
\* phase ended on.
work_complete_stale(s) ==
  LET n == s.sessions_completed + 1
      counted == [s EXCEPT !.is_active = FALSE, !.sessions_completed = n]
  IN  IF session_limit_reached(n, s.settings) \/ s.settings.long_break_interval = 0
        THEN counted
        ELSE LET m == break_mode(is_long_after_work(n, s.settings.long_break_interval))
             IN  [counted EXCEPT !.mode = m,
                                 !.is_active = s.settings.auto_start_breaks]

\* Mutant of work_complete: auto_start_breaks is not consulted, the break
\* waits paused.
work_complete_paused(s) ==
  LET n == s.sessions_completed + 1
      counted == [s EXCEPT !.is_active = FALSE, !.sessions_completed = n]
  IN  IF session_limit_reached(n, s.settings) \/ s.settings.long_break_interval = 0
        THEN counted
        ELSE LET m == break_mode(is_long_after_work(n, s.settings.long_break_interval))
             IN  [counted EXCEPT !.mode = m,
                                 !.time_left = ModeSeconds(m, s.settings)]

\* Lines 342-353: the state a work completion leaves (at the panic, when it
\* panics: the count is already incremented and the timer stopped).
work_complete(s) ==
  LET n == s.sessions_completed + 1
      counted == [s EXCEPT !.is_active = FALSE, !.sessions_completed = n]
  IN  IF session_limit_reached(n, s.settings) \/ s.settings.long_break_interval = 0
        THEN counted
        ELSE LET m == break_mode(is_long_after_work(n, s.settings.long_break_interval))
             IN  [counted EXCEPT !.mode = m,
                                 !.time_left = ModeSeconds(m, s.settings),
                                 !.is_active = s.settings.auto_start_breaks]

\* Mutant of break_complete: stop_after_long_break is not consulted.
break_complete_no_stop(s) ==
  [s EXCEPT !.mode = "work",
            !.time_left = ModeSeconds("work", s.settings),
            !.is_active = s.settings.auto_start_pomodoros]

\* Lines 342, 356-363: the state a break completion leaves.
break_complete(s) ==
  IF s.mode = "longBreak" /\ s.settings.stop_after_long_break
    THEN [s EXCEPT !.is_active = FALSE]
    ELSE [s EXCEPT !.mode = "work",
                   !.time_left = ModeSeconds("work", s.settings),
                   !.is_active = s.settings.auto_start_pomodoros]

\* Mutant of tick_branch: the phase completes on the tick that would bring
\* time_left to 0 (`> 1` for `> 0`).
tick_branch_early(s) ==
  CASE ~s.is_active      -> "paused"
    [] s.time_left > 1   -> "countdown"
    [] s.mode = "work"   -> "work_complete"
    [] OTHER             -> "break_complete"

\* Lines 339-341: the branch of `if s.is_active` one iteration takes.
tick_branch(s) ==
  CASE ~s.is_active      -> "paused"
    [] s.time_left > 0   -> "countdown"
    [] s.mode = "work"   -> "work_complete"
    [] OTHER             -> "break_complete"

\* Mutant of tick_state: a paused timer counts down too.
tick_state_ticks_paused(s, now) ==
  LET r == rollover(s, now)
      b == tick_branch(r)
  IN  CASE b = "paused"        -> [r EXCEPT !.time_left = IF r.time_left > 0
                                                            THEN r.time_left - 1 ELSE 0]
        [] b = "countdown"     -> [r EXCEPT !.time_left = r.time_left - 1]
        [] b = "work_complete" -> work_complete(r)
        [] OTHER               -> break_complete(r)

\* Mutant of tick_state: the tick that brings time_left to 0 stops the timer.
tick_state_stops_at_zero(s, now) ==
  LET r == rollover(s, now)
      b == tick_branch(r)
  IN  CASE b = "paused"        -> r
        [] b = "countdown"     -> [r EXCEPT !.time_left = r.time_left - 1,
                                            !.is_active = r.time_left > 1]
        [] b = "work_complete" -> work_complete(r)
        [] OTHER               -> break_complete(r)

\* Lines 333-372: the state one iteration leaves, from the state it locked.
tick_state(s, now) ==
  LET r == rollover(s, now)
      b == tick_branch(r)
  IN  CASE b = "paused"        -> r
        [] b = "countdown"     -> [r EXCEPT !.time_left = r.time_left - 1]
        [] b = "work_complete" -> work_complete(r)
        [] OTHER               -> break_complete(r)

\* The iteration panics (line 349) before it reaches the emit of line 371.
tick_panics(s, now) ==
  LET r == rollover(s, now)
  IN  /\ tick_branch(r) = "work_complete"
      /\ work_completion_panics(r.sessions_completed + 1, r.settings)

\* Mutant of tick_saves: the save after the increment (line 346) is missing.
tick_saves_rollover_only(s, now) ==
  IF s.last_date # now THEN <<PersistentState(0, now)>> ELSE <<>>

\* Lines 337 and 346: the save_persistent_state calls of one iteration.
tick_saves(s, now) ==
  LET r == rollover(s, now)
  IN  (IF s.last_date # now THEN <<PersistentState(0, now)>> ELSE <<>>)
      \o (IF tick_branch(r) = "work_complete"
            THEN <<PersistentState(r.sessions_completed + 1, now)>>
            ELSE <<>>)

\* Lines 344, 357 and 371: the events of one iteration; `after` is the state
\* the iteration leaves, cloned by the closing pomodoro_tick.
tick_events(s, now, after) ==
  LET r == rollover(s, now)
      b == tick_branch(r)
  IN  (CASE b = "work_complete"  -> <<Event("pomodoro_completed", r.settings.work_duration)>>
         [] b = "break_complete" -> <<Event("break_completed", <<>>)>>
         [] OTHER                -> <<>>)
      \o (IF b = "paused" \/ tick_panics(s, now)
            THEN <<>>
            ELSE <<Event("pomodoro_tick", after)>>)

\* Lines 332-386 in program order: the lock of line 332, the file writes of
\* lines 337 and 346, the show_system_notification calls of lines 354 and
\* 365/367, and the drop of the guard `s` at the end of the loop body.  A
\* panic at line 349 ends the iteration before line 354.
tick_io(s, now) ==
  LET r == rollover(s, now)
      b == tick_branch(r)
  IN  <<"lock">>
      \o (IF s.last_date # now THEN <<"write_state">> ELSE <<>>)
      \o (CASE b = "work_complete"  -> <<"write_state">>
                                         \o (IF tick_panics(s, now)
                                               THEN <<"panic">> ELSE <<"notify">>)
            [] b = "break_complete" -> <<"notify">>
            [] OTHER                -> <<>>)
      \o (IF tick_panics(s, now) THEN <<>> ELSE <<"unlock">>)

\* save_persistent_state overwrites the document; fs::write is best effort
\* (`let _ =`), the model's writes succeed.
write_state_file(file, calls) ==
  IF calls = <<>> THEN file ELSE calls[Len(calls)]

\* The timer variables take the fields of the PomodoroState p.
SetTimer(p) ==
  /\ time_left' = p.time_left
  /\ is_active' = p.is_active
  /\ mode' = p.mode
  /\ sessions_completed' = p.sessions_completed
  /\ last_date' = p.last_date
  /\ settings' = p.settings

\* One iteration of the loop of lines 330-386.  With the Mutex poisoned,
\* lock().unwrap() panics and the task ends.
tick ==
  /\ loop_alive
  /\ IF poisoned
       THEN /\ loop_alive' = FALSE
            /\ emitted' = <<>>
            /\ saved' = <<>>
            /\ io' = <<"panic">>
            /\ UNCHANGED <<timer, today, state_file, settings_file, poisoned>>
       ELSE LET before == Snapshot
                rolled == rollover(before, today)
                after  == tick_state(before, today)
                panics == tick_panics(before, today)
            IN  /\ tick_branch(rolled) = "work_complete"
                     => rolled.sessions_completed < MaxSessions
                /\ SetTimer(after)
                /\ saved' = tick_saves(before, today)
                /\ io' = tick_io(before, today)
                /\ state_file' = write_state_file(state_file, saved')
                /\ emitted' = tick_events(before, today, after)
                /\ poisoned' = panics
                /\ loop_alive' = ~panics
                /\ UNCHANGED <<today, settings_file>>

\* ================================================================ commands
\* Every command starts with state.state.lock().unwrap(): on a poisoned Mutex
\* it panics before it reads or writes anything.

\* toggle_timer, lines 194-205.  Starting or resuming a work phase calls
\* show_system_notification (line 201); the guard `s` lives to the end of the
\* function.
toggle_timer ==
  /\ ~poisoned
  /\ is_active' = ~is_active
  /\ UNCHANGED <<time_left, mode, sessions_completed, last_date, settings>>
  /\ emitted' = <<Event("pomodoro_tick", Snapshot')>>
  /\ saved' = <<>>
  /\ io' = IF ~is_active /\ mode = "work"
             THEN <<"lock", "notify", "unlock">>
             ELSE <<"lock", "unlock">>
  /\ UNCHANGED host

\* reset_timer, lines 208-217.
reset_timer ==
  /\ ~poisoned
  /\ is_active' = FALSE
  /\ time_left' = ModeSeconds(mode, settings)
  /\ UNCHANGED <<mode, sessions_completed, last_date, settings>>
  /\ emitted' = <<Event("pomodoro_tick", Snapshot')>>
  /\ saved' = <<>>
  /\ io' = <<"lock", "unlock">>
  /\ UNCHANGED host

\* Line 223: `s.sessions_completed > 0 && (s.sessions_completed + 1) %
\* s.settings.long_break_interval == 0`; && skips the remainder at count 0.
is_long_on_skip(n, interval) == n > 0 /\ (n + 1) % interval = 0

\* Line 223 with long_break_interval = 0 and a count above 0: the remainder
\* panics.
skip_panics(s) ==
  s.mode = "work" /\ s.sessions_completed > 0 /\ s.settings.long_break_interval = 0

\* Mutant of skip_state: a skipped work phase counts as a session.
skip_state_counting(s) ==
  LET m == IF s.mode = "work"
             THEN break_mode(is_long_on_skip(s.sessions_completed,
                                             s.settings.long_break_interval))
             ELSE "work"
  IN  [s EXCEPT !.mode = m,
                !.time_left = ModeSeconds(m, s.settings),
                !.is_active = FALSE,
                !.sessions_completed = IF s.mode = "work"
                                         THEN s.sessions_completed + 1
                                         ELSE s.sessions_completed]

\* Mutant of skip_state: time_left is not recomputed for the new mode.
skip_state_stale(s) ==
  LET m == IF s.mode = "work"
             THEN break_mode(is_long_on_skip(s.sessions_completed,
                                             s.settings.long_break_interval))
             ELSE "work"
  IN  [s EXCEPT !.mode = m, !.is_active = FALSE]

\* Lines 222-230: the state skip_mode leaves.
skip_state(s) ==
  LET m == IF s.mode = "work"
             THEN break_mode(is_long_on_skip(s.sessions_completed,
                                             s.settings.long_break_interval))
             ELSE "work"
  IN  [s EXCEPT !.mode = m,
                !.time_left = ModeSeconds(m, s.settings),
                !.is_active = FALSE]

\* skip_mode, lines 220-232.  A panic at line 223 comes before any
\* assignment and poisons the Mutex.
skip_mode ==
  /\ ~poisoned
  /\ IF skip_panics(Snapshot)
       THEN /\ poisoned' = TRUE
            /\ emitted' = <<>>
            /\ io' = <<"lock", "panic">>
            /\ UNCHANGED <<timer, today, state_file, settings_file, loop_alive>>
       ELSE /\ SetTimer(skip_state(Snapshot))
            /\ emitted' = <<Event("pomodoro_tick", Snapshot')>>
            /\ io' = <<"lock", "unlock">>
            /\ UNCHANGED host
  /\ saved' = <<>>

\* Mutant of update_settings_to: time_left is recomputed while the timer runs
\* too.
update_settings_rescaling(new) ==
  /\ ~poisoned
  /\ settings' = new
  /\ settings_file' = new
  /\ time_left' = ModeSeconds(mode, new)
  /\ UNCHANGED <<is_active, mode, sessions_completed, last_date>>
  /\ emitted' = <<Event("pomodoro_tick", Snapshot')>>
  /\ saved' = <<>>
  /\ io' = <<"lock", "write_settings", "unlock">>
  /\ UNCHANGED <<today, state_file, poisoned, loop_alive>>

\* update_settings, lines 235-247, with the submitted settings `new`;
\* save_settings (line 238) is called with the guard `s` alive.
update_settings_to(new) ==
  /\ ~poisoned
  /\ settings' = new
  /\ settings_file' = new
  /\ time_left' = IF ~is_active THEN ModeSeconds(mode, new) ELSE time_left
  /\ UNCHANGED <<is_active, mode, sessions_completed, last_date>>
  /\ emitted' = <<Event("pomodoro_tick", Snapshot')>>
  /\ saved' = <<>>
  /\ io' = <<"lock", "write_settings", "unlock">>
  /\ UNCHANGED <<today, state_file, poisoned, loop_alive>>

update_settings == \E new \in Edits(settings) : update_settings_to(new)

\* ============================================================= environment
\* Midnight passes: Local::now() reports the next date.  The loop runs every
\* second, so it has seen the old date before the new one comes.
next_day ==
  /\ today < MaxDay
  /\ last_date = today
  /\ today' = today + 1
  /\ UNCHANGED <<timer, state_file, settings_file, poisoned, loop_alive, outputs>>

\* ============================================================ specification
Next ==
  \/ (tick /\ UNCHANGED scenario)
  \/ (toggle_timer /\ UNCHANGED scenario)
  \/ (reset_timer /\ UNCHANGED scenario)
  \/ (skip_mode /\ UNCHANGED scenario)
  \/ (update_settings /\ UNCHANGED scenario)
  \/ (next_day /\ UNCHANGED scenario)

Spec == Init /\ [][Next]_vars

\* ----------------------------------------------------- countdown scenario
\* A work phase running with N seconds left on an unchanged date, then ticks
\* only: no command, no midnight.  Such states are reached under Spec by
\* toggle_timer and N fewer ticks than the phase has seconds.
CountdownInit ==
  /\ today = 1
  /\ last_date = today
  /\ settings \in {st \in SettingsValues :
                     st.stop_after_sessions = 0 /\ st.long_break_interval >= 1}
  /\ settings_file = settings
  /\ mode = "work"
  /\ is_active = TRUE
  /\ time_left \in 1..MaxCountdown
  /\ sessions_completed \in 0..(MaxSessions - 1)
  /\ state_file = IF sessions_completed = 0
                    THEN NoFile
                    ELSE PersistentState(sessions_completed, today)
  /\ poisoned = FALSE
  /\ loop_alive = TRUE
  /\ emitted = <<Event("pomodoro_tick", Snapshot)>>
  /\ saved = <<>>
  /\ io = <<"lock", "notify", "unlock">>
  /\ origin = Origin(time_left, sessions_completed)
  /\ elapsed = 0

CountdownNext ==
  /\ elapsed <= origin.time_left
  /\ tick
  /\ elapsed' = elapsed + 1
  /\ UNCHANGED origin

CountdownSpec == CountdownInit /\ [][CountdownNext]_vars

\* ------------------------------------------------------- start-up scenario
\* Before main() runs there are only the two documents and the date; the
\* timer variables hold no PomodoroState yet (last_date 0 is no date).
Documents ==
  {NoFile, Unreadable}
  \cup {PersistentState(n, d) : n \in 0..MaxSessions, d \in 0..MaxDay}

StartupInit ==
  /\ today \in 1..MaxDay
  /\ state_file \in Documents
  /\ settings_file \in SettingsValues
  /\ settings = settings_file
  /\ time_left = 0
  /\ is_active = FALSE
  /\ mode = "work"
  /\ sessions_completed = 0
  /\ last_date = 0
  /\ poisoned = FALSE
  /\ loop_alive = FALSE
  /\ emitted = <<>>
  /\ saved = <<>>
  /\ io = <<>>
  /\ origin = NoScenario
  /\ elapsed = 0

\* main(), lines 298-305 and 326: both documents are loaded, the state is
\* built from them and the tick task is spawned.
startup ==
  /\ ~loop_alive /\ ~poisoned
  /\ settings' = load_settings(settings_file)
  /\ time_left' = ClampedSeconds(settings'.work_duration)
  /\ is_active' = FALSE
  /\ mode' = "work"
  /\ sessions_completed' = load_persistent_state(state_file, today).sessions_completed
  /\ last_date' = load_persistent_state(state_file, today).last_date
  /\ loop_alive' = TRUE
  /\ UNCHANGED <<today, state_file, settings_file, poisoned, outputs>>

StartupNext == startup /\ UNCHANGED scenario

StartupSpec == StartupInit /\ [][StartupNext]_vars

\* --------------------------------------------------------- resume scenario
\* The states a stopping tick leaves on an unchanged date: a work completion
\* that reached stop_after_sessions (lines 345-347), or a completed long
\* break under stop_after_long_break (line 358).  Then toggle_timer and one
\* tick.
StoppedBySessionLimit ==
  /\ settings \in {st \in SettingsValues : st.stop_after_sessions > 0}
  /\ mode = "work"
  /\ sessions_completed \in {n \in 1..(MaxSessions - 1) : n >= settings.stop_after_sessions}
  /\ emitted = <<Event("pomodoro_completed", settings.work_duration),
                 Event("pomodoro_tick", Snapshot)>>
  /\ saved = <<PersistentState(sessions_completed, today)>>
  /\ io = <<"lock", "write_state", "notify", "unlock">>

StoppedAfterLongBreak ==
  /\ settings \in {st \in SettingsValues :
                     /\ st.stop_after_long_break
                     /\ st.stop_after_sessions = 0
                     /\ st.long_break_interval >= 1}
  /\ mode = "longBreak"
  /\ sessions_completed \in {n \in 1..MaxSessions : n % settings.long_break_interval = 0}
  /\ emitted = <<Event("break_completed", <<>>), Event("pomodoro_tick", Snapshot)>>
  /\ saved = <<>>
  /\ io = <<"lock", "notify", "unlock">>

ResumeInit ==
  /\ today \in 1..MaxDay
  /\ last_date = today
  /\ time_left = 0
  /\ is_active = FALSE
  /\ poisoned = FALSE
  /\ loop_alive = TRUE
  /\ (StoppedBySessionLimit \/ StoppedAfterLongBreak)
  /\ settings_file = settings
  /\ state_file = PersistentState(sessions_completed, today)
  /\ origin = Origin(time_left, sessions_completed)
  /\ elapsed = 0

ResumeNext ==
  \/ (elapsed = 0 /\ toggle_timer /\ elapsed' = 1 /\ UNCHANGED origin)
  \/ (elapsed = 1 /\ tick /\ elapsed' = 2 /\ UNCHANGED origin)

ResumeSpec == ResumeInit /\ [][ResumeNext]_vars

\* ---------------------------------------------------------- cycle scenario
\* A work phase just started by toggle_timer on an unchanged date, with both
\* auto-start flags set and no stop configured; then ticks only.  The loop
\* ticks every second for as long as the task lives, hence the weak fairness.
CycleInit ==
  /\ today = 1
  /\ last_date = today
  /\ settings \in {st \in SettingsValues :
                     /\ st.auto_start_breaks /\ st.auto_start_pomodoros
                     /\ st.stop_after_sessions = 0 /\ ~st.stop_after_long_break
                     /\ st.long_break_interval >= 1}
  /\ settings_file = settings
  /\ mode = "work"
  /\ is_active = TRUE
  /\ time_left = ModeSeconds(mode, settings)
  /\ sessions_completed = 0
  /\ state_file = NoFile
  /\ poisoned = FALSE
  /\ loop_alive = TRUE
  /\ emitted = <<Event("pomodoro_tick", Snapshot)>>
  /\ saved = <<>>
  /\ io = <<"lock", "notify", "unlock">>
  /\ origin = NoScenario
  /\ elapsed = 0

CycleNext == tick /\ UNCHANGED scenario

CycleSpec == CycleInit /\ [][CycleNext]_vars /\ WF_vars(CycleNext)

TypeOK ==
  /\ time_left \in 0..ClampedSeconds(2)
  /\ is_active \in BOOLEAN
  /\ mode \in Modes
  /\ sessions_completed \in 0..MaxSessions
  /\ last_date \in 1..MaxDay
  /\ settings \in SettingsValues
  /\ io \in Seq({"lock", "write_state", "write_settings", "notify", "unlock", "panic"})
  /\ today \in 1..MaxDay

\* ================================================================== claims
\* What the statements below read off a step.

\* The raw minutes settings st gives mode m, before any clamping.
ModeMinutes(m, st) ==
  CASE m = "shortBreak" -> st.short_break_duration
    [] m = "longBreak"  -> st.long_break_duration
    [] OTHER            -> st.work_duration

AllDurationsSet(st) ==
  st.work_duration >= 1 /\ st.short_break_duration >= 1 /\ st.long_break_duration >= 1

\* An iteration of the loop that got the lock.
TickRuns == ~poisoned /\ tick
\* The iteration finds a work phase, or a break, run out.
WorkCompletes == is_active /\ time_left = 0 /\ mode = "work"
BreakCompletes == is_active /\ time_left = 0 /\ mode # "work"
\* The day's count the iteration starts from: 0 when it first rolls the date over.
CountOfDay == IF last_date # today THEN 0 ELSE sessions_completed

\* The events of the last step that carry a PomodoroState.
Published == SelectSeq(emitted, LAMBDA e : e.name = "pomodoro_tick")
PublishedOnce == Len(Published) = 1 /\ Published[1].payload = Snapshot
LastStepEmitted(name) == \E i \in 1..Len(emitted) : emitted[i].name = name

\* C1, as stated: on the tick that completes a work phase, with
\* long_break_interval >= 1, sessions_completed grows by exactly 1 and mode
\* becomes longBreak iff the new count is a multiple of the interval, else
\* shortBreak.
C1_AsStated ==
  [][ (TickRuns /\ WorkCompletes /\ settings.long_break_interval >= 1)
        => /\ sessions_completed' = sessions_completed + 1
           /\ mode' = IF sessions_completed' % settings.long_break_interval = 0
                        THEN "longBreak" ELSE "shortBreak" ]_vars

\* C1, amended: the new count is one more than the day's count (0 when the
\* same tick rolls the date over); with the session limit reached mode stays
\* work, otherwise the long-break rule picks the break.
C1_WorkCompletion ==
  [][ (TickRuns /\ WorkCompletes /\ settings.long_break_interval >= 1)
        => /\ sessions_completed' = CountOfDay + 1
           /\ mode' = IF /\ settings.stop_after_sessions > 0
                         /\ sessions_completed' >= settings.stop_after_sessions
                        THEN "work"
                        ELSE IF sessions_completed' % settings.long_break_interval = 0
                               THEN "longBreak" ELSE "shortBreak" ]_vars

\* A second work phase of the day has just completed under interval 2 and
\* led to the long break.
C1_Witness ==
  /\ LastStepEmitted("pomodoro_completed")
  /\ settings.long_break_interval = 2
  /\ sessions_completed = 2
  /\ mode = "longBreak"

C3_SessionLimitStops ==
  [][ (TickRuns /\ WorkCompletes
         /\ settings.stop_after_sessions > 0
         /\ CountOfDay + 1 >= settings.stop_after_sessions)
        => (is_active' = FALSE /\ mode' = "work" /\ ~poisoned') ]_vars

\* The limit stopped the timer although breaks auto-start and the interval
\* is 0.
C3_Witness ==
  /\ LastStepEmitted("pomodoro_completed")
  /\ LastStepEmitted("pomodoro_tick")
  /\ settings.stop_after_sessions > 0
  /\ sessions_completed >= settings.stop_after_sessions
  /\ settings.auto_start_breaks
  /\ settings.long_break_interval = 0
  /\ mode = "work" /\ ~is_active

\* C4, as stated: skip_mode from work picks longBreak iff
\* (sessions_completed + 1) % long_break_interval = 0, from a break it goes
\* to work; time_left is the new mode's duration (read as clamped to one
\* minute) and is_active is false.
C4_AsStated ==
  [][ (skip_mode /\ settings.long_break_interval >= 1)
        => /\ mode' = IF mode # "work" THEN "work"
                      ELSE IF (sessions_completed + 1) % settings.long_break_interval = 0
                             THEN "longBreak" ELSE "shortBreak"
           /\ time_left' = Max(1, ModeMinutes(mode', settings)) * 60
           /\ is_active' = FALSE ]_vars

\* C5: a tick that finds last_date different from today's date, active or
\* paused, first resets the count to 0, sets last_date and saves the pair;
\* a work phase completing on that tick leaves the count at 1.
C5_Rollover ==
  [][ (TickRuns /\ last_date # today)
        => /\ last_date' = today
           /\ saved' # <<>> /\ saved'[1] = PersistentState(0, today)
           /\ sessions_completed' = IF WorkCompletes THEN 1 ELSE 0
           /\ state_file' = PersistentState(sessions_completed', today) ]_vars

\* The first tick of a new day completed a work phase: 0 was saved, then 1.
C5_Witness ==
  /\ saved = <<PersistentState(0, today), PersistentState(1, today)>>
  /\ state_file = PersistentState(1, today)
  /\ sessions_completed = 1
  /\ last_date = today /\ today > 1

\* C6, as stated: every tick, active or paused, and every command publishes
\* exactly one PomodoroState, equal to the state it leaves.
C6_AsStated ==
  [][ (TickRuns \/ toggle_timer \/ reset_timer \/ skip_mode \/ update_settings)
        => PublishedOnce' ]_vars

\* C7, as stated: whatever was submitted, the tick loop is running and the
\* shared state can be locked.
C7_AsStated == loop_alive /\ ~poisoned

\* C8: with all durations >= 1 minute, reset_timer leaves the timer paused
\* with the current mode's duration in seconds and changes nothing else.
C8_Reset ==
  [][ (reset_timer /\ AllDurationsSet(settings))
        => /\ is_active' = FALSE
           /\ time_left' = ModeMinutes(mode, settings) * 60
           /\ UNCHANGED <<mode, sessions_completed, last_date, settings>> ]_vars

\* A paused long break shown in full, just published, as reset_timer leaves it.
C8_Witness ==
  /\ AllDurationsSet(settings)
  /\ mode = "longBreak" /\ ~is_active
  /\ time_left = settings.long_break_duration * 60
  /\ sessions_completed = 0
  /\ PublishedOnce /\ Len(emitted) = 1

\* C9, as stated: a completed long break with stop_after_long_break pauses in
\* longBreak; any other completed break leads to work with
\* work_duration * 60 seconds and is_active = auto_start_pomodoros;
\* sessions_completed does not change.
C9_AsStated ==
  [][ (TickRuns /\ BreakCompletes)
        => /\ IF mode = "longBreak" /\ settings.stop_after_long_break
                THEN is_active' = FALSE /\ mode' = "longBreak"
                ELSE /\ mode' = "work"
                     /\ time_left' = settings.work_duration * 60
                     /\ is_active' = settings.auto_start_pomodoros
           /\ sessions_completed' = sessions_completed ]_vars

\* C9, amended: the work phase gets max(1, work_duration) * 60 seconds, and
\* sessions_completed keeps the day's count (0 when the same tick rolls the
\* date over).
C9_BreakCompletion ==
  [][ (TickRuns /\ BreakCompletes)
        => /\ IF mode = "longBreak" /\ settings.stop_after_long_break
                THEN is_active' = FALSE /\ mode' = "longBreak"
                ELSE /\ mode' = "work"
                     /\ time_left' = Max(1, settings.work_duration) * 60
                     /\ is_active' = settings.auto_start_pomodoros
           /\ sessions_completed' = CountOfDay ]_vars

\* A break has just completed into a work phase of work_duration 0, which
\* runs for one minute.
C9_Witness ==
  /\ LastStepEmitted("break_completed")
  /\ mode = "work"
  /\ settings.work_duration = 0
  /\ time_left = 60

\* The last step wrote the settings document, as every update_settings does.
WroteSettings == \E i \in 1..Len(io) : io[i] = "write_settings"

\* C10, as stated (new ranges over the submissions made from the current
\* settings): update_settings installs the submitted settings; paused,
\* time_left becomes the current mode's duration * 60 under them; active,
\* time_left is unchanged; mode, is_active and sessions_completed are
\* unchanged.
C10_AsStated ==
  [][ WroteSettings' => \A new \in Edits(settings) :
        update_settings_to(new)
          => /\ settings' = new
             /\ time_left' = IF is_active THEN time_left
                             ELSE ModeMinutes(mode, new) * 60
             /\ UNCHANGED <<mode, is_active, sessions_completed>> ]_vars

\* C10, amended: paused, time_left becomes max(1, duration) * 60.
C10_UpdateSettings ==
  [][ WroteSettings' => \A new \in Edits(settings) :
        update_settings_to(new)
          => /\ settings' = new
             /\ time_left' = IF is_active THEN time_left
                             ELSE Max(1, ModeMinutes(mode, new)) * 60
             /\ UNCHANGED <<mode, is_active, sessions_completed>> ]_vars

\* A paused short break under durations of 0, just published: the submitted
\* 0 minutes show as one minute.
C10_Witness ==
  /\ mode = "shortBreak" /\ ~is_active
  /\ settings.short_break_duration = 0
  /\ time_left = 60
  /\ PublishedOnce /\ Len(emitted) = 1

\* C11: skip_mode leaves sessions_completed, last_date and the daily-state
\* document alone; sessions_completed grows only on a tick that completes a
\* work phase; the document is written only on such a tick or on a tick that
\* rolls the date over.
C11_SkipFrame ==
  [][ /\ skip_mode => /\ UNCHANGED <<sessions_completed, last_date, state_file>>
                      /\ saved' = <<>>
      /\ sessions_completed' > sessions_completed => (TickRuns /\ WorkCompletes)
      /\ (state_file' # state_file \/ (saved' # <<>> /\ today' = today))
           => (TickRuns /\ (WorkCompletes \/ last_date # today)) ]_vars

\* A work phase was skipped after one session of the day: the count and the
\* document still say 1, and the skip led to the long break of interval 2.
C11_Witness ==
  /\ mode = "longBreak" /\ ~is_active
  /\ settings.long_break_interval = 2
  /\ sessions_completed = 1
  /\ state_file = PersistentState(1, today)
  /\ saved = <<>> /\ io = <<"lock", "unlock">>
  /\ PublishedOnce /\ Len(emitted) = 1

\* C12: a tick on an active timer with time_left > 0 and no date change
\* takes exactly 1 from time_left and leaves mode, is_active,
\* sessions_completed and settings; a tick on a paused timer leaves time_left
\* and mode.
C12_Tick ==
  [][ /\ (TickRuns /\ is_active /\ time_left > 0 /\ last_date = today)
           => /\ time_left' = time_left - 1
              /\ UNCHANGED <<mode, is_active, sessions_completed, settings>>
      /\ (TickRuns /\ ~is_active) => UNCHANGED <<time_left, mode>> ]_vars

\* A tick has just taken the first second off a running short break.
C12_Witness ==
  /\ mode = "shortBreak" /\ is_active
  /\ time_left = settings.short_break_duration * 60 - 1
  /\ emitted = <<Event("pomodoro_tick", Snapshot)>>
  /\ io = <<"lock", "unlock">>

\* C13: once main() has loaded the daily-state document, the state holds the
\* stored count and date when the stored date is today's, and count 0 with
\* today's date when the stored date differs or the document is missing or
\* unreadable.
C13_Load ==
  loop_alive
    => IF state_file \in {NoFile, Unreadable}
         THEN sessions_completed = 0 /\ last_date = today
         ELSE IF state_file.last_date = today
                THEN /\ sessions_completed = state_file.sessions_completed
                     /\ last_date = state_file.last_date
                ELSE sessions_completed = 0 /\ last_date = today

\* A start-up found yesterday's count of MaxSessions and began the day at 0.
C13_Witness ==
  /\ loop_alive
  /\ state_file = PersistentState(MaxSessions, today - 1)
  /\ sessions_completed = 0
  /\ last_date = today

\* C14, as stated: no file write and no notification call of a handler or of
\* the tick loop lies between its lock and the release of the lock.
IoSteps == {"write_state", "write_settings", "notify"}
LockHeldAt(i) ==
  \E j \in 1..(i - 1) :
    /\ io[j] = "lock"
    /\ \A k \in (j + 1)..(i - 1) : io[k] \notin {"unlock", "panic"}
C14_AsStated ==
  \A i \in 1..Len(io) : io[i] \in IoSteps => ~LockHeldAt(i)

\* C15: every step that changes mode leaves time_left at max(1, duration of
\* the new mode) * 60 under the settings in force, and publishes exactly one
\* snapshot, which is that state.
C15_ModeChange ==
  [][ mode' # mode
        => /\ time_left' = Max(1, ModeMinutes(mode', settings')) * 60
           /\ PublishedOnce' ]_vars

\* A work completion has just led to a long break of two minutes.
C15_Witness ==
  /\ LastStepEmitted("pomodoro_completed")
  /\ mode = "longBreak"
  /\ settings.long_break_duration = 2
  /\ time_left = 120
  /\ PublishedOnce

C17_AsStated ==
  elapsed = 2
    => /\ sessions_completed = origin.sessions_completed
       /\ ~LastStepEmitted("pomodoro_completed")
       /\ ~LastStepEmitted("break_completed")

\* C18, as stated: time_left never exceeds max(1, duration of the current
\* mode under the current settings) * 60.
WithinPhase == time_left <= Max(1, ModeMinutes(mode, settings)) * 60
C18_AsStated == WithinPhase

\* C18, amended: the bound holds at start-up and every step keeps it, except
\* an update_settings that changes the settings of an active timer.
C18_BoundKept ==
  /\ WithinPhase
  /\ [][ (WithinPhase /\ ~(is_active /\ settings' # settings)) => WithinPhase' ]_vars

\* A paused long break after its duration was lowered from 2 minutes to 0:
\* update_settings brought time_left down to the one-minute floor.
C18_Witness ==
  /\ mode = "longBreak" /\ ~is_active
  /\ settings.long_break_duration = 0
  /\ time_left = 60
  /\ WroteSettings

\* C19: whenever last_date is today's date, loading the daily-state document
\* with today's date gives the sessions_completed held in memory.
C19_RestartRestores ==
  last_date = today
    => load_persistent_state(state_file, today).sessions_completed = sessions_completed

\* On the second day two work phases have completed, the second just now:
\* memory and document both say MaxSessions.
C19_Witness ==
  /\ today = 2 /\ last_date = today
  /\ sessions_completed = MaxSessions
  /\ state_file = PersistentState(MaxSessions, today)
  /\ LastStepEmitted("pomodoro_completed")

\* C20: with both auto-start flags set, no stop configured and
\* long_break_interval >= 1, an active timer left to the fair tick loop stays
\* active, every work phase (while the count is below MaxSessions) leads to a
\* break, every break leads to work, and a work phase ends in a long break
\* exactly when the day's count reaches a multiple of the interval.
C20_Cycle ==
  /\ []is_active
  /\ ((mode = "work" /\ sessions_completed < MaxSessions) ~> (mode # "work"))
  /\ ((mode # "work") ~> (mode = "work"))
  /\ [][ (mode = "work" /\ mode' # "work")
           => (mode' = "longBreak"
                 <=> sessions_completed' % settings.long_break_interval = 0) ]_vars

\* Under interval 2 the second break of the day, a long one, has completed
\* and the third work phase started by itself.
C20_Witness ==
  /\ settings.long_break_interval = 2
  /\ sessions_completed = 2
  /\ mode = "work" /\ is_active
  /\ LastStepEmitted("break_completed")

====
